---- MODULE Spec2Model ----
(***************************************************************************)
(* RFID authorize system: the EEPROM-backed registry of authorized cards   *)
(* (bare-UID sketch SimpleCardReadWrite.ino and the name-carrying sketch)  *)
(* and the card-presence loop that drives the LED and the buzzer.          *)
(*                                                                         *)
(* The EEPROM is modelled byte for byte.  Both sketches share one model:   *)
(* the variable `named` says which firmware is flashed.                    *)
(***************************************************************************)
EXTENDS Integers, Sequences, FiniteSets, TLC

(***************************************************************************)
(* Bounds of the model.                                                    *)
(***************************************************************************)
\* Capacity of the registry in the model.  The sketches use 40 (bare) and
\* 25 (named); the model scales it down so that a full registry is reached.
MaxCards == 3

\* Longest stored name in the model.  The named sketch uses 20; the model
\* scales it down so that typed lines reach the cap.
MaxNameLen == 2

\* Power cuts in the middle of an insert that one run of the write-by-write
\* model goes through.
MaxCuts == 1

(***************************************************************************)
(* Program constants.                                                      *)
(***************************************************************************)
EEPROM_ADDR_COUNT == 0
EEPROM_ADDR_START == 10
MAX_UID_LEN == 10
REMOVAL_CHECKS == 6

MAX_CARDS == MaxCards
MAX_NAME_LEN == MaxNameLen

\* What readNameFromEEPROM returns for a stored name length of 0: "NoName".
NoName == <<78, 111, 78, 97, 109, 101>>

(***************************************************************************)
(* Inputs.                                                                 *)
(***************************************************************************)
TenByteUid == <<1, 2, 3, 4, 5, 6, 7, 8, 9, 10>>

\* The identifiers handed to the registry: the empty one, two that differ
\* only in length ([1] and [1,0] have the same zero-padded slot bytes), two
\* of equal length that differ in the last byte, and one of maximal length.
UidPool == { <<>>, <<1>>, <<1, 0>>, <<1, 1>>, TenByteUid }

\* The names handed to addCardWithName: what the add command can pass on,
\* non-empty and at most MAX_NAME_LEN characters: "A" and a name of maximal
\* length ('A', 'B', ...).
MaxLenName == [i \in 1..MAX_NAME_LEN |-> 64 + i]
NamePool == { <<65>>, MaxLenName }

VARIABLES
    named,        \* TRUE: the name-carrying sketch; FALSE: the bare-UID sketch
    eeprom,       \* the persistent bytes, address -> 0..255
    pc,           \* "boot": before setup(); "idle": between calls of loop();
                  \* "dwell": top of an iteration of waitWhileCardPresentAllowSerial;
                  \* "readline": inside readLineFromSerial; "poll": at the presence check
    currentUID,   \* currentUID[0 .. currentUIDLen-1]
    mfrcUid,      \* mfrc522.uid, what the reader read last
    consecutiveNoCard,
    led,          \* LED_PIN is HIGH
    buzzer,       \* the tone on BUZZER_PIN is on
    granted,      \* loop() is in its authorized branch
    rx,           \* characters received on Serial and not read yet
    line,         \* the String s of readLineFromSerial
    script,       \* the characters the user has still to send
    failRun,      \* history: failed presence polls in a row since the last good one
    ret,          \* outcome of the last registry call (op, argument, result, output)
    distinctRun,  \* history: every call so far was an insert of a fresh non-empty uid
    hist,         \* history: the entries of those inserts, in call order
    reloaded,     \* history: a restart happened and nothing was mutated since
    live,         \* history: the entries whose insert returned true and that no
                  \* successful remove or clear took away since, in insert order
    resetAt,      \* history: at the top of the iteration after a good presence
                  \* poll, the counter value that poll found; -1 anywhere else
    owed,         \* history: characters of an over-long name line that were still
                  \* unread when readLineFromSerial returned at the cap
    wq,           \* the EEPROM writes an insert under way has still to make
    snap          \* history: the bytes before that insert, its entry and its phase

\* The registry, the outcome of its last call and its history.
regvars == <<eeprom, ret, distinctRun, hist, reloaded, live>>

\* The transient state of the sketch and its console.
ctlvars == <<currentUID, mfrcUid, consecutiveNoCard, led, buzzer, granted, rx, line,
             script, failRun,
            resetAt, owed>>

\* An insert taken write by write.
wrvars == <<wq, snap>>

vars == <<named, pc, regvars, ctlvars, wrvars>>

(***************************************************************************)
(* EEPROM layout.                                                          *)
(***************************************************************************)
ENTRY_SIZE == IF named THEN 1 + MAX_UID_LEN + 1 + MAX_NAME_LEN ELSE 1 + MAX_UID_LEN

EepromAddrs == 0 .. (EEPROM_ADDR_START + MAX_CARDS * ENTRY_SIZE - 1)

entryAddress(index) == EEPROM_ADDR_START + index * ENTRY_SIZE

\* EEPROM.update(addr, v)
EepromUpdate(e, addr, v) == [e EXCEPT ![addr] = v]

\* A list of EEPROM.update calls <<addr, value>>, applied in order.
RECURSIVE ApplyWrites(_, _)
ApplyWrites(e, ws) ==
    IF ws = <<>> THEN e
    ELSE ApplyWrites(EepromUpdate(e, ws[1][1], ws[1][2]), Tail(ws))

\* Mutant of countValid: "<" for "<=", a full registry counts as corrupt.
countValidStrict(e) == e[EEPROM_ADDR_COUNT] < MAX_CARDS

countValid(e) == e[EEPROM_ADDR_COUNT] <= MAX_CARDS

\* writeCount(byte v): the argument is converted to a byte, then clamped.
writeCount(e, v) ==
    LET b == v % 256
        c == IF b > MAX_CARDS THEN MAX_CARDS ELSE b
    IN  EepromUpdate(e, EEPROM_ADDR_COUNT, c)

readCount(e) ==
    LET v == e[EEPROM_ADDR_COUNT]
    IN  IF v > MAX_CARDS THEN 0 ELSE v

(***************************************************************************)
(* findIndex: linear scan of slots 0 .. count-1, first match wins.          *)
(***************************************************************************)
\* Mutant of BytesMatch: the loop stops one byte early.
RECURSIVE BytesMatchShort(_, _, _, _, _)
BytesMatchShort(e, addr, uid, stLen, i) ==
    IF i >= stLen - 1 THEN TRUE
    ELSE IF e[addr + 1 + i] # uid[i + 1] THEN FALSE
    ELSE BytesMatchShort(e, addr, uid, stLen, i + 1)

\* The inner loop of findIndex: bytes i .. stLen-1 of the slot equal uid's.
RECURSIVE BytesMatch(_, _, _, _, _)
BytesMatch(e, addr, uid, stLen, i) ==
    IF i >= stLen THEN TRUE
    ELSE IF e[addr + 1 + i] # uid[i + 1] THEN FALSE
    ELSE BytesMatch(e, addr, uid, stLen, i + 1)

RECURSIVE FindFrom(_, _, _, _)
FindFrom(e, uid, count, idx) ==
    IF idx >= count THEN -1
    ELSE LET addr == entryAddress(idx)
             stLen == e[addr]
         IN  IF stLen # Len(uid) THEN FindFrom(e, uid, count, idx + 1)
             ELSE IF BytesMatch(e, addr, uid, stLen, 0) THEN idx
             ELSE FindFrom(e, uid, count, idx + 1)

\* Mutant of findIndex: the scan stops one slot early ("idx < count - 1").
findIndexShort(e, uid) == FindFrom(e, uid, readCount(e) - 1, 0)

findIndex(e, uid) == FindFrom(e, uid, readCount(e), 0)

isAuthorized(e, uid) == findIndex(e, uid) >= 0

(***************************************************************************)
(* addCard / addCardWithName.                                              *)
(***************************************************************************)
\* Mutant of UidWrites: the uid bytes go to addr + i, over the length byte.
UidWritesOverLength(addr, uid) ==
    <<<<addr, Len(uid)>>>> \o
    [i \in 1..MAX_UID_LEN |-> <<addr + i - 1, IF i - 1 < Len(uid) THEN uid[i] ELSE 0>>]

\* The writes of the length byte and the zero-padded uid, in code order.
UidWrites(addr, uid) ==
    <<<<addr, Len(uid)>>>> \o
    [i \in 1..MAX_UID_LEN |-> <<addr + i, IF i - 1 < Len(uid) THEN uid[i] ELSE 0>>]

\* The writes of the name length byte and the zero-padded name, in code order.
NameWrites(addr, name) ==
    LET nlen == Len(name) % 256
    IN  <<<<addr + 1 + MAX_UID_LEN, nlen>>>> \o
        [i \in 1..MAX_NAME_LEN |->
            <<addr + 1 + MAX_UID_LEN + i, IF i - 1 < nlen THEN name[i] ELSE 0>>]

\* Mutant of addCard: the "len == 0" check is missing.
addCardNoEmptyCheck(e, uid) ==
    LET count == readCount(e)
    IN  IF count >= MAX_CARDS THEN [ok |-> FALSE, e |-> e]
        ELSE IF findIndex(e, uid) >= 0 THEN [ok |-> FALSE, e |-> e]
        ELSE [ok |-> TRUE,
              e  |-> writeCount(ApplyWrites(e, UidWrites(entryAddress(count), uid)),
                                count + 1)]

\* bool addCard(byte *uid, byte len): [ok, e]
addCard(e, uid) ==
    IF Len(uid) = 0 THEN [ok |-> FALSE, e |-> e]
    ELSE LET count == readCount(e)
         IN  IF count >= MAX_CARDS THEN [ok |-> FALSE, e |-> e]
             ELSE IF findIndex(e, uid) >= 0 THEN [ok |-> FALSE, e |-> e]
             ELSE [ok |-> TRUE,
                   e  |-> writeCount(ApplyWrites(e, UidWrites(entryAddress(count), uid)),
                                     count + 1)]

\* Mutant of addCardWithName: the duplicate check comes after the slot is
\* written (the count is left alone and false is returned).
addCardWithNameWriteFirst(e, uid, name0) ==
    IF Len(uid) = 0 THEN [ok |-> FALSE, e |-> e]
    ELSE LET name == IF Len(name0) > MAX_NAME_LEN
                     THEN SubSeq(name0, 1, MAX_NAME_LEN) ELSE name0
             count == readCount(e)
         IN  IF count >= MAX_CARDS THEN [ok |-> FALSE, e |-> e]
             ELSE LET addr == entryAddress(count)
                      written == ApplyWrites(e, UidWrites(addr, uid) \o NameWrites(addr, name))
                  IN  IF findIndex(e, uid) >= 0 THEN [ok |-> FALSE, e |-> written]
                      ELSE [ok |-> TRUE, e |-> writeCount(written, count + 1)]

\* bool addCardWithName(byte *uid, byte uidLen, String name): [ok, e]
addCardWithName(e, uid, name0) ==
    IF Len(uid) = 0 THEN [ok |-> FALSE, e |-> e]
    ELSE LET name == IF Len(name0) > MAX_NAME_LEN
                     THEN SubSeq(name0, 1, MAX_NAME_LEN) ELSE name0
             count == readCount(e)
         IN  IF count >= MAX_CARDS THEN [ok |-> FALSE, e |-> e]
             ELSE IF findIndex(e, uid) >= 0 THEN [ok |-> FALSE, e |-> e]
             ELSE LET addr == entryAddress(count)
                  IN  [ok |-> TRUE,
                       e  |-> writeCount(
                                ApplyWrites(e, UidWrites(addr, uid) \o NameWrites(addr, name)),
                                count + 1)]

\* writeCount(v) as the one EEPROM.update it makes.
CountWrite(v) ==
    LET b == v % 256
    IN  <<EEPROM_ADDR_COUNT, IF b > MAX_CARDS THEN MAX_CARDS ELSE b>>

\* An insert that stores the new count first and fills the slot after it.
InsertWritesCountFirst(e, uid, name) ==
    LET count == readCount(e)
        addr == entryAddress(count)
    IN  <<CountWrite(count + 1)>> \o UidWrites(addr, uid) \o
        (IF named THEN NameWrites(addr, name) ELSE <<>>)

\* The EEPROM.update calls of an insert that has passed its checks, in the
\* order the code makes them: the slot at index count, then the count.
InsertWrites(e, uid, name) ==
    LET count == readCount(e)
        addr == entryAddress(count)
    IN  UidWrites(addr, uid) \o
        (IF named THEN NameWrites(addr, name) ELSE <<>>) \o
        <<CountWrite(count + 1)>>

(***************************************************************************)
(* removeCard / clearAuthorizedList.                                       *)
(***************************************************************************)
\* for (b = 0; b < ENTRY_SIZE; b++) EEPROM.update(to + b, EEPROM.read(from + b))
RECURSIVE CopyEntry(_, _, _, _)
CopyEntry(e, from, to, b) ==
    IF b >= ENTRY_SIZE THEN e
    ELSE CopyEntry(EepromUpdate(e, to + b, e[from + b]), from, to, b + 1)

\* Mutant of ShiftLeft: the loop stops one slot early ("i < count - 2").
RECURSIVE ShiftLeftShort(_, _, _)
ShiftLeftShort(e, i, count) ==
    IF i >= count - 2 THEN e
    ELSE ShiftLeftShort(CopyEntry(e, entryAddress(i + 1), entryAddress(i), 0), i + 1, count)

\* for (i = idx; i < count - 1; i++) copy slot i+1 to slot i
RECURSIVE ShiftLeft(_, _, _)
ShiftLeft(e, i, count) ==
    IF i >= count - 1 THEN e
    ELSE ShiftLeft(CopyEntry(e, entryAddress(i + 1), entryAddress(i), 0), i + 1, count)

\* for (b = 0; b < ENTRY_SIZE; b++) EEPROM.update(addr + b, 0)
RECURSIVE ZeroEntry(_, _, _)
ZeroEntry(e, addr, b) ==
    IF b >= ENTRY_SIZE THEN e
    ELSE ZeroEntry(EepromUpdate(e, addr + b, 0), addr, b + 1)

\* bool removeCard(byte *uid, byte len): [ok, e]
removeCard(e, uid) ==
    LET idx == findIndex(e, uid)
    IN  IF idx < 0 THEN [ok |-> FALSE, e |-> e]
        ELSE LET count == readCount(e)
                 shifted == ShiftLeft(e, idx, count)
                 cleared == ZeroEntry(shifted, entryAddress(count - 1), 0)
             IN  [ok |-> TRUE, e |-> writeCount(cleared, count - 1)]

RECURSIVE ZeroEntries(_, _, _)
ZeroEntries(e, i, count) ==
    IF i >= count THEN e
    ELSE ZeroEntries(ZeroEntry(e, entryAddress(i), 0), i + 1, count)

\* Mutant of clearAuthorizedList: only the count is reset.
clearCountOnly(e) == writeCount(e, 0)

clearAuthorizedList(e) == writeCount(ZeroEntries(e, 0, readCount(e)), 0)

(***************************************************************************)
(* Reading back: readNameFromEEPROM and printAuthorizedList.               *)
(***************************************************************************)
readNameFromEEPROM(e, index) ==
    LET addr == entryAddress(index)
        nlen == e[addr + 1 + MAX_UID_LEN]
    IN  IF nlen = 0 THEN NoName
        ELSE [i \in 1..nlen |-> e[addr + 1 + MAX_UID_LEN + i]]

\* The list printAuthorizedList writes to the console: for each index below
\* the count, the stored uid bytes and (named sketch) the stored name.
printAuthorizedList(e) ==
    [k \in 1..readCount(e) |->
        LET addr == entryAddress(k - 1)
            l == e[addr]
        IN  [index |-> k - 1,
             uid   |-> [j \in 1..l |-> e[addr + j]],
             name  |-> IF named THEN readNameFromEEPROM(e, k - 1) ELSE <<>>]]

(***************************************************************************)
(* setup(): the registry part, "if (!countValid()) writeCount(0)".          *)
(***************************************************************************)
\* Mutant of setupEeprom: the count is reset whether valid or not.
setupAlwaysReset(e) == writeCount(e, 0)

setupEeprom(e) == IF ~countValid(e) THEN writeCount(e, 0) ELSE e

(***************************************************************************)
(* Initial state: power-on with the EEPROM as the board finds it.          *)
(***************************************************************************)
\* Factory-fresh EEPROM: every byte 0xFF (the count byte is out of range).
FactoryImage == [a \in EepromAddrs |-> 255]

\* A zero count byte in front of bytes left behind by an earlier use of the
\* chip: slot 0 still holds uid [1], slot 1 holds the ten-byte uid.
StaleImage ==
    [a \in EepromAddrs |->
        IF a = entryAddress(0) THEN 1
        ELSE IF a = entryAddress(0) + 1 THEN 1
        ELSE IF a = entryAddress(1) THEN MAX_UID_LEN
        ELSE IF a \in (entryAddress(1) + 1) .. (entryAddress(1) + MAX_UID_LEN)
             THEN TenByteUid[a - entryAddress(1)]
        ELSE 0]

\* ret: the call, its uid argument, its boolean result, the count read before
\* it, whether setup() had run before, and what a print wrote.
NoRet ==
    [op |-> "none", uid |-> <<>>, ok |-> TRUE, cnt |-> 0, again |-> FALSE, out |-> <<>>]

\* snap when no insert has been followed: the bytes before the insert, its
\* entry, and how far it got ("writing", "done", or "cut" by a restart).
NoSnap == [e |-> <<>>, uid |-> <<>>, name |-> <<>>, phase |-> "none", cuts |-> 0]

Init ==
    /\ named \in BOOLEAN
    /\ eeprom \in {FactoryImage, StaleImage}
    /\ pc = "boot"
    /\ currentUID = <<>>
    /\ mfrcUid = <<>>
    /\ consecutiveNoCard = 0
    /\ led = FALSE
    /\ buzzer = FALSE
    /\ granted = FALSE
    /\ rx = <<>>
    /\ line = <<>>
    /\ script = <<>>
    /\ failRun = 0
    /\ ret = NoRet
    /\ distinctRun = TRUE
    /\ hist = <<>>
    /\ reloaded = FALSE
    /\ live = <<>>
    /\ resetAt = -1
    /\ owed = 0
    /\ wq = <<>>
    /\ snap = NoSnap

(***************************************************************************)
(* Registry calls: what a call does to the storage, with its outcome and   *)
(* the history recorded.                                                   *)
(***************************************************************************)
HistUids == { hist[i].uid : i \in 1..Len(hist) }

\* History of an insert call: the run of pairwise distinct non-empty inserts,
\* at most MAX_CARDS of them, goes on or ends.
InsertHistory(uid, name) ==
    IF distinctRun /\ uid # <<>> /\ uid \notin HistUids /\ Len(hist) < MAX_CARDS
    THEN /\ distinctRun' = TRUE
         /\ hist' = Append(hist, [uid |-> uid, name |-> name])
    ELSE /\ distinctRun' = FALSE
         /\ hist' = <<>>

\* The insert of the flashed sketch: addCard(uid, len), or
\* addCardWithName(uid, len, name).
CallInsert(uid, name) ==
    /\ LET r == IF named THEN addCardWithName(eeprom, uid, name) ELSE addCard(eeprom, uid)
       IN  /\ eeprom' = r.e
           /\ ret' = [NoRet EXCEPT !.op = "insert", !.uid = uid, !.ok = r.ok,
                                   !.cnt = readCount(eeprom)]
           /\ live' = IF r.ok THEN Append(live, [uid |-> uid, name |-> name]) ELSE live
    /\ InsertHistory(uid, name)
    /\ reloaded' = FALSE

CallRemove(uid) ==
    /\ LET r == removeCard(eeprom, uid)
       IN  /\ eeprom' = r.e
           /\ ret' = [NoRet EXCEPT !.op = "remove", !.uid = uid, !.ok = r.ok,
                                   !.cnt = readCount(eeprom)]
           /\ live' = IF r.ok THEN SelectSeq(live, LAMBDA x : x.uid # uid) ELSE live
    /\ distinctRun' = FALSE
    /\ hist' = <<>>
    /\ reloaded' = FALSE

CallClear ==
    /\ eeprom' = clearAuthorizedList(eeprom)
    /\ ret' = [NoRet EXCEPT !.op = "clear", !.cnt = readCount(eeprom)]
    /\ live' = <<>>
    /\ distinctRun' = FALSE
    /\ hist' = <<>>
    /\ reloaded' = FALSE

CallPrint ==
    /\ ret' = [NoRet EXCEPT !.op = "print", !.cnt = readCount(eeprom),
                            !.out = printAuthorizedList(eeprom)]
    /\ UNCHANGED <<eeprom, distinctRun, hist, reloaded, live>>

\* No registry call: the outcome records what happened instead.
NoCall(what) ==
    /\ ret' = [NoRet EXCEPT !.op = what]
    /\ UNCHANGED <<eeprom, distinctRun, hist, reloaded, live>>

(***************************************************************************)
(* The registry on its own: a power cycle and the calls, in any order.     *)
(***************************************************************************)
\* Power cycle: the transient state is lost and setup() runs on the
\* persisted bytes.
Setup ==
    /\ eeprom' = setupEeprom(eeprom)
    /\ pc' = "idle"
    /\ currentUID' = <<>>
    /\ mfrcUid' = <<>>
    /\ consecutiveNoCard' = 0
    /\ led' = FALSE
    /\ buzzer' = FALSE
    /\ granted' = FALSE
    /\ rx' = <<>>
    /\ line' = <<>>
    /\ failRun' = 0
    /\ resetAt' = -1
    /\ owed' = 0
    /\ ret' = [NoRet EXCEPT !.op = "setup", !.cnt = readCount(eeprom),
                            !.again = (pc # "boot")]
    /\ reloaded' = (pc # "boot")
    /\ UNCHANGED <<named, script, distinctRun, hist, live>>

AddCard(uid) ==
    /\ pc = "idle"
    /\ ~named
    /\ CallInsert(uid, <<>>)
    /\ UNCHANGED <<named, pc, ctlvars>>

AddCardWithName(uid, name) ==
    /\ pc = "idle"
    /\ named
    /\ CallInsert(uid, name)
    /\ UNCHANGED <<named, pc, ctlvars>>

RemoveCard(uid) ==
    /\ pc = "idle"
    /\ CallRemove(uid)
    /\ UNCHANGED <<named, pc, ctlvars>>

ClearAuthorizedList ==
    /\ pc = "idle"
    /\ CallClear
    /\ UNCHANGED <<named, pc, ctlvars>>

PrintAuthorizedList ==
    /\ pc = "idle"
    /\ CallPrint
    /\ UNCHANGED <<named, pc, ctlvars>>

Next ==
    /\ \/ Setup
       \/ \E uid \in UidPool : AddCard(uid)
       \/ \E uid \in UidPool, name \in NamePool : AddCardWithName(uid, name)
       \/ \E uid \in UidPool : RemoveCard(uid)
       \/ ClearAuthorizedList
       \/ PrintAuthorizedList
    /\ UNCHANGED wrvars

Spec == Init /\ [][Next]_vars

(***************************************************************************)
(* The sketch as a whole: the reader, the console and loop().              *)
(***************************************************************************)
\* Characters on the console.
LF == 10
CR == 13
SP == 32
ChA == 65
Cha == 97
Chc == 99
Chp == 112
Chr == 114
Chx == 120

\* What String::trim() strips at both ends (isspace).
Whitespace == {9, 10, 11, 12, 13, 32}

RECURSIVE TrimLeft(_)
TrimLeft(str) ==
    IF str # <<>> /\ Head(str) \in Whitespace THEN TrimLeft(Tail(str)) ELSE str

RECURSIVE TrimRight(_)
TrimRight(str) ==
    IF str # <<>> /\ str[Len(str)] \in Whitespace
    THEN TrimRight(SubSeq(str, 1, Len(str) - 1)) ELSE str

\* String::trim()
Trim(str) == TrimRight(TrimLeft(str))

\* The cards held to the reader.
CardPool == { <<1>>, <<1, 0>>, TenByteUid }

\* A line longer than the cap: MAX_NAME_LEN times 'x', then "r" and the
\* line feed.
LongLine == [i \in 1..MAX_NAME_LEN |-> Chx] \o <<Chr, LF>>

\* What the user types in a session; when each character arrives is free.
Scripts ==
    { <<Cha, ChA, LF, Chp, Chr, Chp>>,
      <<Cha, SP, Chx, SP, CR, LF, Chc>>,
      <<ChA, SP, CR, LF, Chr>>,
      <<Cha>> \o LongLine,
      <<Chp, Chc, Cha, Chr>>,
      <<Cha, Chx, LF, ChA, Chr, LF, Chr>>,
      <<Cha, Chx, Chr>> }

InitCtl ==
    /\ named \in BOOLEAN
    /\ eeprom = FactoryImage
    /\ pc = "boot"
    /\ currentUID = <<>>
    /\ mfrcUid = <<>>
    /\ consecutiveNoCard = 0
    /\ led = FALSE
    /\ buzzer = FALSE
    /\ granted = FALSE
    /\ rx = <<>>
    /\ line = <<>>
    /\ script \in Scripts
    /\ failRun = 0
    /\ ret = NoRet
    /\ distinctRun = TRUE
    /\ hist = <<>>
    /\ reloaded = FALSE
    /\ live = <<>>
    /\ resetAt = -1
    /\ owed = 0
    /\ wq = <<>>
    /\ snap = NoSnap

\* Power-on: setup() runs once.
Boot ==
    /\ pc = "boot"
    /\ Setup

\* The next character of the session arrives in the receive buffer.
SerialArrive ==
    /\ pc # "boot"
    /\ script # <<>>
    /\ rx' = Append(rx, Head(script))
    /\ script' = Tail(script)
    /\ UNCHANGED <<named, pc, regvars, currentUID, mfrcUid, consecutiveNoCard, led,
                   buzzer, granted, line, failRun, resetAt, owed>>

\* History of reading one character: one character less is owed.
OwedAfterRead == IF owed > 0 THEN owed - 1 ELSE 0
\* A handleSerialNoCard() that also serves 'r', on the identifier left in
\* currentUID.
handleSerialNoCardRemoves ==
    LET c == Head(rx)
    IN  /\ rx' = Tail(rx)
        /\ owed' = OwedAfterRead
        /\ IF c \in {Chp, 80} THEN CallPrint
           ELSE IF c \in {Chc, 67} THEN CallClear
           ELSE IF c \in {Chr, 82} THEN CallRemove(currentUID)
           ELSE NoCall("nocard")

\* handleSerialNoCard(): one character is read; 'p' prints, 'c' clears.
handleSerialNoCard ==
    LET c == Head(rx)
    IN  /\ rx' = Tail(rx)
        /\ owed' = OwedAfterRead
        /\ IF c \in {Chp, 80} THEN CallPrint
           ELSE IF c \in {Chc, 67} THEN CallClear
           ELSE NoCall("nocard")

\* loop() with no new card: PICC_IsNewCardPresent() is false.
LoopNoCard ==
    /\ pc = "idle"
    /\ IF rx # <<>> THEN handleSerialNoCard
       ELSE UNCHANGED <<rx, regvars, owed>>
    /\ UNCHANGED <<named, pc, currentUID, mfrcUid, consecutiveNoCard, led, buzzer,
                   granted, line, script, failRun, resetAt>>

\* loop() with a card that cannot be read: PICC_ReadCardSerial() is false.
LoopReadFailed ==
    /\ pc = "idle"
    /\ UNCHANGED vars
\* A loop() whose authorized branch lights the LED and starts no tone.
LoopCardReadNoTone(uid) ==
    /\ pc = "idle"
    /\ LET cur == IF Len(uid) > MAX_UID_LEN THEN SubSeq(uid, 1, MAX_UID_LEN) ELSE uid
           idx == findIndex(eeprom, cur)
       IN  /\ mfrcUid' = uid
           /\ currentUID' = cur
           /\ granted' = (idx >= 0)
           /\ led' = IF idx >= 0 THEN TRUE ELSE led
           /\ ret' = [NoRet EXCEPT !.op = IF idx >= 0 THEN "granted" ELSE "denied",
                                   !.uid = cur, !.ok = (idx >= 0),
                                   !.out = IF idx >= 0 /\ named
                                           THEN <<readNameFromEEPROM(eeprom, idx)>>
                                           ELSE <<>>]
    /\ consecutiveNoCard' = 0
    /\ failRun' = 0
    /\ resetAt' = -1
    /\ pc' = "dwell"
    /\ UNCHANGED <<named, eeprom, distinctRun, hist, reloaded, live, rx, line, script,
                   owed, buzzer>>

\* loop() reads a card: the uid is copied, looked up, the outputs are set and
\* waitWhileCardPresentAllowSerial() is entered.
LoopCardRead(uid) ==
    /\ pc = "idle"
    /\ LET cur == IF Len(uid) > MAX_UID_LEN THEN SubSeq(uid, 1, MAX_UID_LEN) ELSE uid
           idx == findIndex(eeprom, cur)
       IN  /\ mfrcUid' = uid
           /\ currentUID' = cur
           /\ IF idx >= 0
              THEN /\ led' = TRUE
                   /\ buzzer' = TRUE
                   /\ granted' = TRUE
                   /\ ret' = [NoRet EXCEPT !.op = "granted", !.uid = cur,
                                !.out = IF named THEN <<readNameFromEEPROM(eeprom, idx)>>
                                        ELSE <<>>]
              ELSE /\ granted' = FALSE
                   /\ ret' = [NoRet EXCEPT !.op = "denied", !.uid = cur, !.ok = FALSE]
                   /\ UNCHANGED <<led, buzzer>>
    /\ consecutiveNoCard' = 0
    /\ failRun' = 0
    /\ resetAt' = -1
    /\ pc' = "dwell"
    /\ UNCHANGED <<named, eeprom, distinctRun, hist, reloaded, live, rx, line, script,
                   owed>>

\* The command part of one iteration of the dwell loop: at most one
\* character is read and served.  'a' in the named sketch goes on to read
\* the name.
DwellService ==
    /\ pc = "dwell"
    /\ IF rx = <<>>
       THEN /\ pc' = "poll"
            /\ UNCHANGED <<rx, regvars, owed>>
       ELSE LET ch == Head(rx)
            IN  /\ rx' = Tail(rx)
                /\ owed' = OwedAfterRead
                /\ IF ch \in {Cha, ChA}
                   THEN IF named
                        THEN /\ pc' = "readline"
                             /\ NoCall("prompt")
                        ELSE /\ pc' = "poll"
                             /\ CallInsert(currentUID, <<>>)
                   ELSE /\ pc' = "poll"
                        /\ IF ch \in {Chr, 82} THEN CallRemove(currentUID)
                           ELSE IF ch \in {Chp, 80} THEN CallPrint
                           ELSE IF ch \in {Chc, 67} THEN CallClear
                           ELSE NoCall("ignored")
    /\ line' = <<>>
    /\ resetAt' = -1
    /\ UNCHANGED <<named, currentUID, mfrcUid, consecutiveNoCard, led, buzzer, granted,
                   script, failRun>>
\* An add that hands the trimmed name to addCardWithName even when it is
\* empty.
FinishAddNoCancel(str) ==
    /\ CallInsert(currentUID, Trim(str))
    /\ line' = <<>>
    /\ pc' = "poll"

\* readLineFromSerial returned str: the name is trimmed; an empty name cancels
\* the add, any other is handed to addCardWithName.
FinishAdd(str) ==
    /\ IF Trim(str) = <<>> THEN NoCall("cancelled")
       ELSE CallInsert(currentUID, Trim(str))
    /\ line' = <<>>
    /\ pc' = "poll"

\* "consume rest of line until newline (non-blocking)": what has arrived is
\* read up to and including the first line feed.
RECURSIVE Drain(_)
Drain(q) ==
    IF q = <<>> THEN q
    ELSE IF Head(q) = LF THEN Tail(q)
    ELSE Drain(Tail(q))

\* History of the return at the cap: the rest of the line typed, up to and
\* including its line feed, that has not arrived yet.
HasLF(q) == \E i \in 1..Len(q) : q[i] = LF

UpToLF(q) ==
    IF HasLF(q) THEN CHOOSE i \in 1..Len(q) : q[i] = LF /\ \A j \in 1..(i - 1) : q[j] # LF
    ELSE Len(q)

\* readLineFromSerial reads one character that has arrived.
ReadLineChar ==
    /\ pc = "readline"
    /\ rx # <<>>
    /\ LET c == Head(rx)
       IN  IF c = CR
           THEN /\ rx' = Tail(rx)
                /\ owed' = OwedAfterRead
                /\ UNCHANGED <<pc, line, regvars>>
           ELSE IF c = LF
           THEN /\ rx' = Tail(rx)
                /\ owed' = OwedAfterRead
                /\ FinishAdd(line)
           ELSE IF Len(line) + 1 >= MAX_NAME_LEN
           THEN /\ rx' = Drain(Tail(rx))
                /\ owed' = IF HasLF(Tail(rx)) THEN 0 ELSE UpToLF(script)
                /\ FinishAdd(Append(line, c))
           ELSE /\ rx' = Tail(rx)
                /\ owed' = OwedAfterRead
                /\ line' = Append(line, c)
                /\ UNCHANGED <<pc, regvars>>
    /\ UNCHANGED <<named, currentUID, mfrcUid, consecutiveNoCard, led, buzzer, granted,
                   script, failRun, resetAt>>
\* A readLineFromSerial called with timeoutMs = 0: it never gives up.
ReadLineNoTimeout ==
    /\ pc = "readline"
    /\ rx = <<>>
    /\ FALSE
    /\ UNCHANGED vars

\* A readLineFromSerial that returns what it has read so far when the time
\* is over.
ReadLineTimeoutKeepsLine ==
    /\ pc = "readline"
    /\ rx = <<>>
    /\ FinishAdd(line)
    /\ UNCHANGED <<named, currentUID, mfrcUid, consecutiveNoCard, led, buzzer, granted,
                   rx, script, failRun, resetAt, owed>>

\* readLineFromSerial finds nothing to read and the 30000 ms are over: it
\* returns the empty String.
ReadLineTimeout ==
    /\ pc = "readline"
    /\ rx = <<>>
    /\ FinishAdd(<<>>)
    /\ UNCHANGED <<named, currentUID, mfrcUid, consecutiveNoCard, led, buzzer, granted,
                   rx, script, failRun, resetAt, owed>>
\* A presence check that succeeds and leaves the counter as it is.
DwellPollOkNoReset(uid) ==
    /\ pc = "poll"
    /\ mfrcUid' = uid
    /\ failRun' = 0
    /\ resetAt' = failRun
    /\ pc' = "dwell"
    /\ UNCHANGED <<named, regvars, currentUID, consecutiveNoCard, led, buzzer, granted,
                   rx, line, script, owed>>

\* The presence check of the dwell loop succeeds: the reader read a card.
DwellPollOk(uid) ==
    /\ pc = "poll"
    /\ mfrcUid' = uid
    /\ consecutiveNoCard' = 0
    /\ failRun' = 0
    /\ resetAt' = failRun
    /\ pc' = "dwell"
    /\ UNCHANGED <<named, regvars, currentUID, led, buzzer, granted, rx, line, script,
                   owed>>
\* A loop() that turns the outputs off only if the card is still listed when
\* the dwell loop is left.
DwellPollFailedRecheck ==
    /\ pc = "poll"
    /\ consecutiveNoCard' = consecutiveNoCard + 1
    /\ failRun' = failRun + 1
    /\ IF consecutiveNoCard + 1 > REMOVAL_CHECKS
       THEN /\ pc' = "idle"
            /\ IF findIndex(eeprom, currentUID) >= 0
               THEN led' = FALSE /\ buzzer' = FALSE
               ELSE UNCHANGED <<led, buzzer>>
       ELSE /\ pc' = "dwell"
            /\ UNCHANGED <<led, buzzer>>
    /\ UNCHANGED <<named, regvars, currentUID, mfrcUid, granted, rx, line, script,
                   resetAt, owed>>

\* The presence check fails: the counter goes up and, beyond REMOVAL_CHECKS,
\* the loop is left and loop() turns the outputs off in its authorized branch.
DwellPollFailed ==
    /\ pc = "poll"
    /\ consecutiveNoCard' = consecutiveNoCard + 1
    /\ failRun' = failRun + 1
    /\ IF consecutiveNoCard + 1 > REMOVAL_CHECKS
       THEN /\ pc' = "idle"
            /\ IF granted
               THEN led' = FALSE /\ buzzer' = FALSE
               ELSE UNCHANGED <<led, buzzer>>
       ELSE /\ pc' = "dwell"
            /\ UNCHANGED <<led, buzzer>>
    /\ UNCHANGED <<named, regvars, currentUID, mfrcUid, granted, rx, line, script,
                   resetAt, owed>>

NextCtl ==
    /\ \/ Boot
       \/ SerialArrive
       \/ LoopNoCard
       \/ LoopReadFailed
       \/ \E uid \in CardPool : LoopCardRead(uid)
       \/ DwellService
       \/ ReadLineChar
       \/ ReadLineTimeout
       \/ \E uid \in CardPool : DwellPollOk(uid)
       \/ DwellPollFailed
    /\ UNCHANGED wrvars

SpecCtl == InitCtl /\ [][NextCtl]_vars

\* The session followed to the end of every dwell: an add whose name is
\* never finished, or runs into the remove typed behind it.
LiveScripts == { <<Cha, Chx, Chr>> }

InitLive == InitCtl /\ script \in LiveScripts

\* One step of waitWhileCardPresentAllowSerial() or of the readLineFromSerial
\* it calls.
DwellStep ==
    /\ \/ DwellService
       \/ ReadLineChar
       \/ ReadLineTimeout
       \/ \E uid \in CardPool : DwellPollOk(uid)
       \/ DwellPollFailed
    /\ UNCHANGED wrvars

\* The sketch keeps running and millis() advances: the dwell loop is not
\* held up for ever.  Nothing is assumed of the reader and of the console.
SpecCtlFair == InitLive /\ [][NextCtl]_vars /\ WF_vars(DwellStep)

(***************************************************************************)
(* An insert taken one EEPROM write at a time, with power cuts between the *)
(* writes.                                                                 *)
(***************************************************************************)
\* The identifiers inserted write by write: a short one and one that fills
\* the slot.
WrPool == { <<1>>, TenByteUid }

\* Power is cut and comes back: setup() runs on the bytes written so far.
PowerCycle ==
    /\ wq # <<>> => snap.cuts < MaxCuts
    /\ Setup
    /\ wq' = <<>>
    /\ snap' = IF wq # <<>> THEN [snap EXCEPT !.phase = "cut", !.cuts = @ + 1] ELSE snap

\* addCard / addCardWithName up to its first write: the checks are made; a
\* rejected insert returns false and writes nothing.
BeginInsert(uid, name) ==
    /\ pc = "idle"
    /\ wq = <<>>
    /\ LET r == IF named THEN addCardWithName(eeprom, uid, name) ELSE addCard(eeprom, uid)
       IN  IF r.ok
           THEN /\ wq' = InsertWrites(eeprom, uid, name)
                /\ snap' = [e |-> eeprom, uid |-> uid, name |-> name, phase |-> "writing",
                             cuts |-> snap.cuts]
                /\ UNCHANGED regvars
           ELSE /\ CallInsert(uid, name)
                /\ wq' = <<>>
                /\ snap' = [NoSnap EXCEPT !.cuts = snap.cuts]
    /\ UNCHANGED <<named, pc, ctlvars>>

\* The next EEPROM.update of the insert; after the last one it returns true.
WriteStep ==
    /\ wq # <<>>
    /\ eeprom' = EepromUpdate(eeprom, Head(wq)[1], Head(wq)[2])
    /\ wq' = Tail(wq)
    /\ IF Len(wq) = 1
       THEN /\ snap' = [snap EXCEPT !.phase = "done"]
            /\ ret' = [NoRet EXCEPT !.op = "insert", !.uid = snap.uid, !.ok = TRUE,
                                    !.cnt = readCount(eeprom)]
            /\ live' = Append(live, [uid |-> snap.uid, name |-> snap.name])
            /\ InsertHistory(snap.uid, snap.name)
            /\ reloaded' = FALSE
       ELSE UNCHANGED <<snap, ret, live, distinctRun, hist, reloaded>>
    /\ UNCHANGED <<named, pc, ctlvars>>

\* removeCard between inserts.
RemoveBetween(uid) ==
    /\ pc = "idle"
    /\ wq = <<>>
    /\ CallRemove(uid)
    /\ snap' = [NoSnap EXCEPT !.cuts = snap.cuts]
    /\ UNCHANGED <<named, pc, ctlvars, wq>>

NextWr ==
    \/ PowerCycle
    \/ \E uid \in WrPool \cup {<<>>}, name \in NamePool :
           BeginInsert(uid, IF named THEN name ELSE <<>>)
    \/ WriteStep
    \/ \E uid \in WrPool : RemoveBetween(uid)

SpecWr == Init /\ [][NextWr]_vars

(***************************************************************************)
(* Properties.  What follows reads the storage directly, slot by slot, and *)
(* does not go through the operators above unless it says so.              *)
(***************************************************************************)
\* The bytes of slot i.
SlotBytes(e, i) == [b \in 0..(ENTRY_SIZE - 1) |-> e[entryAddress(i) + b]]

ZeroSlot == [b \in 0..(ENTRY_SIZE - 1) |-> 0]

\* The slot image of an entry: length, zero-padded uid and, in the named
\* sketch, name length and zero-padded name.
EntryBytes(uid, name) ==
    [b \in 0..(ENTRY_SIZE - 1) |->
        IF b = 0 THEN Len(uid)
        ELSE IF b <= MAX_UID_LEN THEN (IF b <= Len(uid) THEN uid[b] ELSE 0)
        ELSE IF b = MAX_UID_LEN + 1 THEN Len(name)
        ELSE IF b - MAX_UID_LEN - 1 <= Len(name) THEN name[b - MAX_UID_LEN - 1]
        ELSE 0]

\* Slot i stores exactly the identifier uid: equal length, equal bytes.
SlotHolds(e, i, uid) ==
    /\ e[entryAddress(i)] = Len(uid)
    /\ \A k \in 1..Len(uid) : e[entryAddress(i) + k] = uid[k]

\* Slots i and j store the same identifier.
SameIdentifier(e, i, j) ==
    /\ e[entryAddress(i)] = e[entryAddress(j)]
    /\ \A k \in 1..e[entryAddress(i)] : e[entryAddress(i) + k] = e[entryAddress(j) + k]

LiveSlots(e) == 0 .. (readCount(e) - 1)

Matches(e, uid) == { i \in LiveSlots(e) : SlotHolds(e, i, uid) }

\* The contract of lookup: the smallest matching live index, or -1.
Lookup(e, uid) ==
    IF Matches(e, uid) = {} THEN -1
    ELSE CHOOSE i \in Matches(e, uid) : \A j \in Matches(e, uid) : i <= j

\* C1: no two live slots hold the same identifier (equal stored length and
\* byte-for-byte equal content), after any sequence of registry calls.
C1_Unique ==
    \A i, j \in LiveSlots(eeprom) : i # j => ~SameIdentifier(eeprom, i, j)

\* C1 witness: after a successful remove, [1] and [1,0], whose padded slot
\* bytes are the same, are both live.
C1_Witness ==
    /\ ret.op = "remove" /\ ret.ok
    /\ Matches(eeprom, <<1>>) # {}
    /\ Matches(eeprom, <<1, 0>>) # {}

\* C2: once setup() has run, the persisted count byte is within
\* 0..MAX_CARDS, the live entries are exactly slots [0, count) in order, and
\* every live slot stores an identifier length in 1..MAX_UID_LEN.
C2_Layout ==
    pc # "boot" =>
        /\ eeprom[EEPROM_ADDR_COUNT] \in 0..MAX_CARDS
        /\ eeprom[EEPROM_ADDR_COUNT] = Len(live)
        /\ \A i \in 1..Len(live) : SlotHolds(eeprom, i - 1, live[i].uid)
        /\ \A i \in LiveSlots(eeprom) : eeprom[entryAddress(i)] \in 1..MAX_UID_LEN

\* C2 witness: a remove below a full registry left MAX_CARDS - 1 live entries.
C2_Witness ==
    /\ ret.op = "remove" /\ ret.ok /\ ret.cnt = MAX_CARDS
    /\ Len(live) = MAX_CARDS - 1
    /\ live[1].uid = TenByteUid

\* C3: in a run of inserts of pairwise distinct non-empty identifiers, at most
\* MAX_CARDS of them, into the empty registry, every insert returns true, is
\* written at the slot whose index is the count before the call, leaves the
\* slots below it unchanged, and afterwards the count equals the number of
\* inserts and lookup finds every inserted identifier.
C3_DistinctInserts ==
    [][(distinctRun' /\ ret'.op = "insert") =>
        /\ ret'.ok
        /\ readCount(eeprom') = readCount(eeprom) + 1
        /\ readCount(eeprom') = Len(hist')
        /\ SlotBytes(eeprom', readCount(eeprom)) =
              EntryBytes(hist'[Len(hist')].uid, hist'[Len(hist')].name)
        /\ \A i \in LiveSlots(eeprom) : SlotBytes(eeprom', i) = SlotBytes(eeprom, i)
        /\ \A i \in 1..Len(hist') : findIndex(eeprom', hist'[i].uid) = i - 1
      ]_vars

\* C3 witness: MAX_CARDS distinct inserts in a row filled the registry.
C3_Witness ==
    /\ distinctRun /\ ret.op = "insert" /\ ret.ok
    /\ Len(hist) = MAX_CARDS
    /\ readCount(eeprom) = MAX_CARDS

\* C4: an insert of the empty identifier, into a full registry, or of an
\* identifier already stored returns false, and an insert that returns false
\* leaves every byte of the storage as it was.
C4_RejectedInsert ==
    [][ret'.op = "insert" =>
        /\ ( \/ ret'.uid = <<>>
             \/ readCount(eeprom) = MAX_CARDS
             \/ Matches(eeprom, ret'.uid) # {} ) => ~ret'.ok
        /\ ~ret'.ok => eeprom' = eeprom
      ]_vars

\* C4 witness: a duplicate was rejected while the registry had room.
C4_Witness ==
    /\ ret.op = "insert" /\ ~ret.ok
    /\ ret.uid # <<>>
    /\ ret.cnt < MAX_CARDS
    /\ Matches(eeprom, ret.uid) # {}

\* C5: remove of an identifier that is not stored returns false and changes
\* nothing; remove of the identifier stored at index k returns true,
\* decrements the count by 1, makes lookup of it fail, leaves slots below k
\* unchanged, moves each slot i+1 (k <= i <= count-2) to slot i and zeroes
\* the vacated last slot.
C5_Remove ==
    [][ret'.op = "remove" =>
        LET k == Lookup(eeprom, ret'.uid)
            count == readCount(eeprom)
        IN  IF k < 0
            THEN ~ret'.ok /\ eeprom' = eeprom
            ELSE /\ ret'.ok
                 /\ readCount(eeprom') = count - 1
                 /\ eeprom'[EEPROM_ADDR_COUNT] = count - 1
                 /\ findIndex(eeprom', ret'.uid) = -1
                 /\ \A i \in 0..(k - 1) : SlotBytes(eeprom', i) = SlotBytes(eeprom, i)
                 /\ \A i \in k..(count - 2) : SlotBytes(eeprom', i) = SlotBytes(eeprom, i + 1)
                 /\ SlotBytes(eeprom', count - 1) = ZeroSlot
      ]_vars

\* C5 witness: the first entry of a full registry was removed and the two
\* entries behind it moved down in order.
C5_Witness ==
    /\ ret.op = "remove" /\ ret.ok /\ ret.cnt = MAX_CARDS
    /\ Len(live) = MAX_CARDS - 1
    /\ \A i \in 1..Len(live) : SlotHolds(eeprom, i - 1, live[i].uid)
    /\ ret.uid = <<1>>
    /\ live[1].uid = <<1, 0>>

\* C6: clear leaves the count at 0 and every previously live slot zeroed;
\* after it the list that print writes is empty and every lookup fails.
C6_Clear ==
    [][ret'.op = "clear" =>
        /\ eeprom'[EEPROM_ADDR_COUNT] = 0
        /\ readCount(eeprom') = 0
        /\ \A i \in LiveSlots(eeprom) : SlotBytes(eeprom', i) = ZeroSlot
        /\ printAuthorizedList(eeprom') = <<>>
        /\ \A uid \in UidPool : findIndex(eeprom', uid) = -1
      ]_vars

\* C6 witness: a full registry was cleared.
C6_Witness ==
    /\ ret.op = "clear" /\ ret.cnt = MAX_CARDS
    /\ eeprom[EEPROM_ADDR_COUNT] = 0

\* What print must write for the entries E1..En in order.
Listing(entries) ==
    [k \in 1..Len(entries) |->
        [index |-> k - 1,
         uid   |-> entries[k].uid,
         name  |-> IF named THEN entries[k].name ELSE <<>>]]

\* C7: after a run of inserts of entries E1..En with distinct non-empty
\* identifiers, n <= MAX_CARDS, and a restart, print writes exactly E1..En,
\* identifiers and names, in insertion order, and the count is n.
C7_RoundTrip ==
    (distinctRun /\ reloaded /\ ret.op = "print") =>
        /\ ret.out = Listing(hist)
        /\ ret.cnt = Len(hist)
        /\ eeprom[EEPROM_ADDR_COUNT] = Len(hist)

\* C7 witness: a full registry printed after a restart.
C7_Witness ==
    /\ distinctRun /\ reloaded /\ ret.op = "print"
    /\ Len(hist) = MAX_CARDS
    /\ Len(ret.out) = MAX_CARDS

\* C8: setup() rewrites an out-of-range count byte to 0 and writes nothing
\* else; with the count byte in range it writes nothing; run again, it
\* never changes the storage.
C8_Initialize ==
    [][ret'.op = "setup" =>
        /\ eeprom[EEPROM_ADDR_COUNT] > MAX_CARDS =>
              eeprom' = [eeprom EXCEPT ![EEPROM_ADDR_COUNT] = 0]
        /\ eeprom[EEPROM_ADDR_COUNT] \in 0..MAX_CARDS => eeprom' = eeprom
        /\ ret'.again => eeprom' = eeprom
      ]_vars

\* C8 witness: a board that started factory-fresh (bytes 1..9 are never
\* written, so they still read 0xFF, and its first setup() had to rewrite the
\* count) ran setup() again on a full registry.
C8_Witness ==
    /\ ret.op = "setup" /\ ret.again
    /\ eeprom[1] = 255
    /\ eeprom[EEPROM_ADDR_COUNT] = MAX_CARDS

\* C9: findIndex returns the smallest live index whose stored length and
\* bytes equal the identifier's, and -1 when there is none; identifiers that
\* differ only in length are not matched to each other, and slots at or
\* beyond the count are not matched.
C9_Lookup ==
    \A uid \in UidPool : findIndex(eeprom, uid) = Lookup(eeprom, uid)

\* C9 witness: [1] is live at index 0; [1,0], with the same padded bytes, is
\* not found; the ten-byte uid left in slot 1 beyond the count is not found.
C9_Witness ==
    /\ readCount(eeprom) = 1
    /\ findIndex(eeprom, <<1>>) = 0
    /\ findIndex(eeprom, <<1, 0>>) = -1
    /\ SlotHolds(eeprom, 1, TenByteUid)
    /\ findIndex(eeprom, TenByteUid) = -1

\* Waiting in waitWhileCardPresentAllowSerial: the controller is in Present.
InPresent == pc \in {"dwell", "readline", "poll"}

\* C10: the controller leaves Present for Idle with the 6th failed poll in a
\* row (REMOVAL_CHECKS) and not before: once REMOVAL_CHECKS polls in a row
\* have failed it is no longer in Present, and when it is back in Idle the
\* run of failed polls that took it there is REMOVAL_CHECKS long.
C10_ExitAtSixth ==
    /\ InPresent => failRun < REMOVAL_CHECKS
    /\ (pc = "idle" /\ failRun > 0) => failRun = REMOVAL_CHECKS

\* C11: a presence poll of the dwell loop that succeeds sets the counter to 0
\* whatever it was, so the counter is the length of the run of failed polls
\* since the last good one; and the controller leaves Present only on a failed
\* poll that completes an unbroken run of at least REMOVAL_CHECKS failures.
C11_DebounceReset ==
    [][ /\ (pc = "poll" /\ failRun' = 0) => consecutiveNoCard' = 0
        /\ InPresent' => consecutiveNoCard' = failRun'
        /\ (InPresent /\ pc' = "idle") =>
               /\ pc = "poll"
               /\ failRun' = failRun + 1
               /\ failRun' >= REMOVAL_CHECKS ]_vars

\* A good poll has just reset a counter that stood at REMOVAL_CHECKS - 1.
C11_Witness ==
    /\ pc = "dwell"
    /\ resetAt = REMOVAL_CHECKS - 1
    /\ consecutiveNoCard = 0

\* C12: whenever the controller is in Idle, the LED and the buzzer are off:
\* leaving Present turns both off whether or not the card was listed at
\* entry and whatever commands were served during the dwell.
C12_IdleOff == pc = "idle" => (~led /\ ~buzzer)

\* Back in Idle after a dwell that was entered with a listed card, whose
\* entry a command of that dwell took away.
C12_Witness ==
    /\ pc = "idle"
    /\ granted
    /\ failRun > 0
    /\ Matches(eeprom, currentUID) = {}
    /\ ~led
    /\ ~buzzer

\* C13: the lookup made on entering Present fixes the outputs for the whole
\* dwell: found, the LED and the buzzer are on in every state of the dwell;
\* not found, both are off in every state of the dwell; commands served
\* during the dwell that add, remove or clear the active identifier change
\* neither.
C13_FixedAtEntry ==
    [][ /\ (pc = "idle" /\ InPresent') => granted' = (Matches(eeprom, currentUID') # {})
        /\ (InPresent /\ InPresent') => granted' = granted
        /\ InPresent' => (led' = granted' /\ buzzer' = granted') ]_vars

\* In Present with both outputs on although the active identifier is no
\* longer listed.
C13_Witness ==
    /\ InPresent
    /\ granted
    /\ led
    /\ buzzer
    /\ Matches(eeprom, currentUID) = {}

\* C14: in Idle a pending 'a'/'A' or 'r'/'R' is read and leaves the registry
\* and the outputs as they are; 'p'/'P' writes the list and changes nothing;
\* 'c'/'C' empties the registry; the controller stays in Idle for all four.
C14_IdleCommands ==
    [][ (pc = "idle" /\ rx # <<>> /\ rx' = Tail(rx)) =>
            /\ pc' = "idle"
            /\ led' = led /\ buzzer' = buzzer
            /\ Head(rx) \in {Cha, ChA, Chr, 82} =>
                   /\ eeprom' = eeprom
                   /\ ret'.op \notin {"insert", "remove", "clear", "print"}
            /\ Head(rx) \in {Chp, 80} =>
                   /\ eeprom' = eeprom
                   /\ ret'.op = "print"
                   /\ ret'.out = Listing(live)
            /\ Head(rx) \in {Chc, 67} =>
                   /\ ret'.op = "clear"
                   /\ eeprom'[EEPROM_ADDR_COUNT] = 0
                   /\ \A i \in LiveSlots(eeprom) : SlotBytes(eeprom', i) = ZeroSlot
                   /\ live' = <<>>
      ]_vars

\* A character that is no Idle command was read in Idle while the registry
\* held an entry, which is still there.
C14_Witness ==
    /\ pc = "idle"
    /\ ret.op = "nocard"
    /\ live # <<>>
    /\ readCount(eeprom) = Len(live)

\* Every character of s is white space.
AllBlank(s) == \A i \in 1..Len(s) : s[i] \in Whitespace

\* C15: the add command of the named sketch is cancelled, insert is not called
\* and the registry is left as it is, when the line read for the name is
\* empty or all white space, and when the read times out with no line
\* terminator, whatever characters it had read by then.
C15_AddCancelled ==
    [][ (named /\ pc = "readline" /\ pc' # "readline") =>
            LET timeout == rx = <<>>
                got == IF timeout THEN <<>>
                       ELSE IF Head(rx) = LF THEN line
                       ELSE Append(line, Head(rx))
            IN  (timeout \/ AllBlank(got)) =>
                    /\ ret'.op = "cancelled"
                    /\ eeprom' = eeprom
                    /\ live' = live
      ]_vars

\* The add was cancelled by the timeout after the first 'x' of the long line
\* had been read as the name: the rest of that line has yet to arrive.
C15_Witness ==
    /\ named
    /\ pc = "poll"
    /\ ret.op = "cancelled"
    /\ rx = <<>>
    /\ script = Tail(LongLine)
    /\ MAX_NAME_LEN > 1

C17_ActiveIsLastRead ==
    mfrcUid # <<>> =>
        currentUID = IF Len(mfrcUid) > MAX_UID_LEN THEN SubSeq(mfrcUid, 1, MAX_UID_LEN)
                     ELSE mfrcUid

\* The reader reads a card, in loop() or in the dwell loop.
ReadsCard == \E uid \in CardPool : LoopCardRead(uid) \/ DwellPollOk(uid)

\* C18: if from some point on no reader poll reads a card, then from every
\* Present state, whatever commands are pending and however they end, the
\* dwell loop is left and the controller is in Idle with the LED and the
\* buzzer off.
C18_Terminates ==
    (<>[][~ReadsCard]_vars) => (InPresent ~> (pc = "idle" /\ ~led /\ ~buzzer))

\* Idle again with the outputs off after a dwell in which the name read of an
\* add command ran into its timeout.
C18_Witness ==
    /\ pc = "idle"
    /\ named
    /\ ret.op = "cancelled"
    /\ failRun > REMOVAL_CHECKS
    /\ ~led
    /\ ~buzzer

\* What the sketch lists after a restart on the bytes e.
Reloaded(e) == printAuthorizedList(setupEeprom(e))

\* C19: an insert writes every byte of the new slot at index count before it
\* writes the incremented count.  While writes are still to come, the
\* persisted count and the slots below it are as before the insert, and a
\* restart there reloads exactly the list of before; after the last write, a
\* restart reloads that list followed by the new entry.
C19_WriteOrder ==
    /\ snap.phase = "writing" =>
           /\ wq # <<>>
           /\ eeprom[EEPROM_ADDR_COUNT] = snap.e[EEPROM_ADDR_COUNT]
           /\ \A i \in LiveSlots(snap.e) : SlotBytes(eeprom, i) = SlotBytes(snap.e, i)
           /\ Reloaded(eeprom) = printAuthorizedList(snap.e)
    /\ snap.phase = "cut" => printAuthorizedList(eeprom) = printAuthorizedList(snap.e)
    /\ snap.phase = "done" =>
           Reloaded(eeprom) =
               Append(printAuthorizedList(snap.e),
                      [index |-> readCount(snap.e), uid |-> snap.uid, name |-> snap.name])

\* A restart cut the insert of the ten-byte identifier into a registry of one
\* entry after the whole slot was written and before the count was.
C19_Witness ==
    /\ snap.phase = "cut"
    /\ snap.uid = TenByteUid
    /\ readCount(snap.e) = 1
    /\ readCount(eeprom) = 1
    /\ SlotBytes(eeprom, 1) = EntryBytes(snap.uid, snap.name)

====
